---- MODULE Spec2Model ----
(***************************************************************************)
(* A model of the notebook tutorials/notebooks/Coordinates-Intro/          *)
(* Coordinates-Intro.ipynb: the kernel's variables, the file on disk, the  *)
(* network calls made, and one action per code cell, run top to bottom.    *)
(*                                                                         *)
(* The library calls the cells make (astropy's SkyCoord and Angle, the     *)
(* standard library's urlencode and urlretrieve) are modelled at the call  *)
(* site by what the called function does.  Numbers of the notebook run are *)
(* the exact decimal values its literals denote, held as fractions; the    *)
(* rounding of floating-point conversions is modelled separately (Fl).     *)
(***************************************************************************)
EXTENDS Integers, Sequences, FiniteSets, TLC

VARIABLES
    pc,            \* the code cell to run next, "done" or "halted"
    stopOnError,   \* TRUE: "Run All" (stops at the first exception)
    uncommented,   \* TRUE: the user uncommented the fallback line
    status,        \* per code cell: "pending", "ok" or "error"
    out,           \* per code cell: the value it displayed
    hcg7_center,   \* the kernel variable hcg7_center
    cutoutvars,    \* the kernel variables the cutout cell assigns
    sesame,        \* the answer the name service gave to from_name
    netlog,        \* the network calls issued so far, in order
    disk,          \* the local files: name -> content
    calc           \* a pure function applied to drawn inputs (SpecScale, SpecAngle)

vars == <<pc, stopOnError, uncommented, status, out, hcg7_center, cutoutvars,
          sesame, netlog, disk, calc>>

nbvars == <<pc, stopOnError, uncommented, status, out, hcg7_center, cutoutvars,
            sesame, netlog, disk>>

----------------------------------------------------------------------------
(* Bounds of the model. *)

\* blocks in one served image (urlretrieve copies the body block by block)
NBlocks == 3
\* significand bits of the modelled binary floating point (binary64 has 53)
MantBits == 6
\* smallest binary exponent of a drawn angle is -MaxNegExp
MaxNegExp == 4
\* largest field of view drawn, in arcmin
MaxFov == 14
\* largest pixel width drawn
MaxPixels == 1030

----------------------------------------------------------------------------
(* Exact fractions: the values the decimal literals denote. *)

Abs(i) == IF i < 0 THEN -i ELSE i

RECURSIVE GCD(_, _)
GCD(a, b) == IF b = 0 THEN a ELSE GCD(b, a % b)

\* the fraction n/d in lowest terms, d > 0
Rat(n, d) == LET g == GCD(Abs(n), d) IN [n |-> n \div g, d |-> d \div g]

RatDivInt(q, k) == Rat(q.n, q.d * k)
RatAdd(p, q) == Rat(p.n * q.d + q.n * p.d, p.d * q.d)
RatLess(p, q) == p.n * q.d < q.n * p.d
RatLeq(p, q) == p.n * q.d <= q.n * p.d
\* q modulo the integer k > 0, in [0, k)
RatModInt(q, k) == Rat(q.n % (k * q.d), q.d)

----------------------------------------------------------------------------
(* astropy.units and astropy.coordinates, as the cells use them. *)

NoObject == [kind |-> "undefined"]

\* factors between angular units, each in arcseconds
ArcsecPer(unit) ==
    CASE unit = "arcsec" -> 1
      [] unit = "arcmin" -> 60
      [] unit = "deg" -> 3600
      [] unit = "hourangle" -> 54000

\* Quantity.to(unit).value for a Quantity [value, unit]
ToValue(q, unit) == Rat(q.value.n * ArcsecPer(q.unit), q.value.d * ArcsecPer(unit))

Quantity(value, unit) == [value |-> value, unit |-> unit]

\* Angle.deg and Angle.hour
AngleDeg(a) == ToValue(a, "deg")
AngleHour(a) == ToValue(a, "hourangle")

\* Longitude wraps its value into [0, 360) deg
Longitude(a) ==
    IF a.unit = "hourangle"
    THEN Quantity(RatModInt(a.value, 24), "hourangle")
    ELSE Quantity(RatModInt(a.value, 360), "deg")

\* Latitude raises ValueError outside [-90, 90] deg
LatitudeOK(a) ==
    /\ RatLeq(Rat(-90, 1), AngleDeg(a))
    /\ RatLeq(AngleDeg(a), Rat(90, 1))

\* a faulty variant: a constructor that stores its arguments unchecked
SkyCoordNoCheck(ra, dec, frame) ==
    [kind |-> "SkyCoord", ra |-> ra, dec |-> dec, frame |-> frame]

\* SkyCoord(ra, dec, frame): a Position, or NoObject when the constructor raises
SkyCoord(ra, dec, frame) ==
    IF LatitudeOK(dec)
    THEN [kind |-> "SkyCoord", ra |-> Longitude(ra), dec |-> dec, frame |-> frame]
    ELSE NoObject

\* a sexagesimal string 'XhYmZs' or 'XdYmZs', Z given in thousandths:
\* X + Y/60 + Z/3600 in the string's own unit
Sexagesimal(x, y, zmilli, unit) ==
    Quantity(RatAdd(RatAdd(Rat(x, 1), Rat(y, 60)), Rat(zmilli, 3600000)), unit)

\* SkyCoord(9.81625*u.deg, 0.88806*u.deg, frame='icrs')
FallbackCoord ==
    SkyCoord(Quantity(Rat(981625, 100000), "deg"),
             Quantity(Rat(88806, 100000), "deg"), "icrs")

\* SkyCoord('0h39m15.9s', '0d53m17.016s', frame='icrs')
StringCoord ==
    SkyCoord(Sexagesimal(0, 39, 15900, "hourangle"),
             Sexagesimal(0, 53, 17016, "deg"), "icrs")

\* "according to SESAME, HCG 7 is located at ra = 9.849 deg and dec = 0.878 deg"
SesameReported == [ra |-> Rat(9849, 1000), dec |-> Rat(878, 1000)]

\* what the name service may answer for 'HCG 7': decimal degrees (ra, dec)
SesameAnswers ==
    { SesameReported,
      [ra |-> Rat(981625, 100000), dec |-> Rat(88806, 100000)],
      [ra |-> Rat(369849, 1000), dec |-> Rat(878, 1000)],
      [ra |-> Rat(-151, 1000), dec |-> Rat(-878, 1000)],
      [ra |-> Rat(9849, 1000), dec |-> Rat(90878, 1000)],
      [ra |-> Rat(9849, 1000), dec |-> Rat(-90878, 1000)] }

\* SkyCoord.from_name: the answer parsed as degrees in the ICRS frame
FromName(answer) ==
    SkyCoord(Quantity(answer.ra, "deg"), Quantity(answer.dec, "deg"), "icrs")

----------------------------------------------------------------------------
(* The cutout request. *)

IM_SIZE_ARCMIN == 12
IM_PIXELS == 1024

cutoutbaseurl == "http://skyservice.pha.jhu.edu/DR12/ImgCutout/getjpeg.aspx"
\* urlretrieve(url, 'HCG7_SDSS_cutout.jpg') and Image('HCG7_SDSS_cutout.jpg')
RetrieveTarget == "HCG7_SDSS_cutout.jpg"
ImageSource == "HCG7_SDSS_cutout.jpg"

\* a faulty variant: the field of view left in arcmin
ScaleWrongUnit(im_size, im_pixels) == RatDivInt(ToValue(im_size, "arcmin"), im_pixels)

\* im_size.to(u.arcsec).value / im_pixels
ScaleOf(im_size, im_pixels) == RatDivInt(ToValue(im_size, "arcsec"), im_pixels)

\* a faulty variant: the height parameter left out
QueryNoHeight(center, im_size, im_pixels) ==
    << <<"ra", AngleDeg(center.ra)>>,
       <<"dec", AngleDeg(center.dec)>>,
       <<"width", Rat(im_pixels, 1)>>,
       <<"scale", ScaleOf(im_size, im_pixels)>> >>

\* urlencode(dict(ra=..., dec=..., width=..., height=..., scale=...)):
\* the key=value pairs in the dict's order
QueryString(center, im_size, im_pixels) ==
    << <<"ra", AngleDeg(center.ra)>>,
       <<"dec", AngleDeg(center.dec)>>,
       <<"width", Rat(im_pixels, 1)>>,
       <<"height", Rat(im_pixels, 1)>>,
       <<"scale", ScaleOf(im_size, im_pixels)>> >>

\* cutoutbaseurl + '?' + query_string
Url(base, query) == [base |-> base, query |-> query]

\* the image the repository ships as 'HCG7_SDSS_cutout.jpg'
BundledImage == [i \in 1..NBlocks |-> [of |-> [base |-> "repository"], block |-> i]]

\* the JPEG the cutout service sends for a URL, block by block
Served(url) == [i \in 1..NBlocks |-> [of |-> url, block |-> i]]

Prefix(s, k) == [i \in 1..k |-> s[i]]

\* the files after content is written under name
Written(files, name, content) ==
    [f \in DOMAIN files \cup {name} |-> IF f = name THEN content ELSE files[f]]

----------------------------------------------------------------------------
(* The code cells, in the notebook's order. *)

CellOrder ==
    << "imports", "from_name", "fallback", "type", "dir", "print",
       "type_radec", "show_radec", "show_center", "hour1", "from_string",
       "hour2", "cutout", "image", "exercise1", "exercise2" >>

Cells == {CellOrder[i] : i \in 1..Len(CellOrder)}

IndexOf(c) == CHOOSE i \in 1..Len(CellOrder) : CellOrder[i] = c

\* a faulty variant: the image cell placed before the cutout cell
NextCellImageFirst(c) ==
    CASE c = "hour2" -> "image"
      [] c = "image" -> "cutout"
      [] c = "cutout" -> "exercise1"
      [] OTHER -> IF IndexOf(c) = Len(CellOrder) THEN "done" ELSE CellOrder[IndexOf(c) + 1]

\* the cell run after c when cells are run top to bottom
NextCell(c) ==
    IF IndexOf(c) = Len(CellOrder) THEN "done" ELSE CellOrder[IndexOf(c) + 1]

\* a cell ends: normally, or with an exception ("Run All" then stops)
Finish(c, ok) ==
    /\ status' = [status EXCEPT ![c] = IF ok THEN "ok" ELSE "error"]
    /\ pc' = IF ~ok /\ stopOnError THEN "halted" ELSE NextCell(c)

Defined == hcg7_center # NoObject

InitNotebook ==
    /\ pc = "imports"
    /\ stopOnError \in BOOLEAN
    /\ uncommented \in BOOLEAN
    /\ status = [c \in Cells |-> "pending"]
    /\ out = [c \in Cells |-> NoObject]
    /\ hcg7_center = NoObject
    /\ cutoutvars = [name \in {} |-> NoObject]
    /\ sesame = NoObject
    /\ netlog = <<>>
    /\ disk = [f \in {"HCG7_SDSS_cutout.jpg"} |-> BundledImage]

Init == InitNotebook /\ calc = [fn |-> "none"]

\* the imports; the empty exercise cells
PlainCell ==
    /\ pc \in {"imports", "exercise1", "exercise2"}
    /\ Finish(pc, TRUE)
    /\ UNCHANGED <<stopOnError, uncommented, out, hcg7_center, cutoutvars,
                   sesame, netlog, disk, calc>>

\* a faulty variant: a failed request is repeated at once
FromNameRetry ==
    /\ pc = "from_name"
    /\ \/ /\ netlog' = Append(Append(netlog, "sesame"), "sesame")
          /\ sesame' = NoObject
          /\ hcg7_center' = hcg7_center
          /\ Finish(pc, FALSE)
       \/ \E answer \in SesameAnswers :
             /\ netlog' = Append(netlog, "sesame")
             /\ sesame' = answer
             /\ IF FromName(answer) = NoObject
                THEN hcg7_center' = hcg7_center /\ Finish(pc, FALSE)
                ELSE hcg7_center' = FromName(answer) /\ Finish(pc, TRUE)
    /\ UNCHANGED <<stopOnError, uncommented, out, cutoutvars, disk, calc>>

\* hcg7_center = SkyCoord.from_name('HCG 7')
\* one request to the name service; no answer, or an answer SkyCoord rejects,
\* raises and leaves hcg7_center unassigned
FromNameCell ==
    /\ pc = "from_name"
    /\ netlog' = Append(netlog, "sesame")
    /\ \/ /\ sesame' = NoObject
          /\ hcg7_center' = hcg7_center
          /\ Finish(pc, FALSE)
       \/ \E answer \in SesameAnswers :
             /\ sesame' = answer
             /\ IF FromName(answer) = NoObject
                THEN hcg7_center' = hcg7_center /\ Finish(pc, FALSE)
                ELSE hcg7_center' = FromName(answer) /\ Finish(pc, TRUE)
    /\ UNCHANGED <<stopOnError, uncommented, out, cutoutvars, disk, calc>>

\* # hcg7_center = SkyCoord(9.81625*u.deg, 0.88806*u.deg, frame='icrs')
\* a comment as written; an assignment once uncommented
FallbackCell ==
    /\ pc = "fallback"
    /\ hcg7_center' = IF uncommented THEN FallbackCoord ELSE hcg7_center
    /\ Finish(pc, TRUE)
    /\ UNCHANGED <<stopOnError, uncommented, out, cutoutvars, sesame, netlog,
                   disk, calc>>

\* what a cell that only reads hcg7_center displays
Shown(c) ==
    CASE c = "type" -> [kind |-> "type", name |-> "SkyCoord"]
      [] c = "dir" -> [kind |-> "dir", of |-> "SkyCoord"]
      [] c = "print" ->
            [kind |-> "text",
             line1 |-> <<AngleDeg(hcg7_center.ra), AngleDeg(hcg7_center.dec)>>,
             line2 |-> <<AngleHour(hcg7_center.ra), AngleDeg(hcg7_center.dec)>>]
      [] c = "type_radec" -> [kind |-> "types", names |-> <<"Longitude", "Latitude">>]
      [] c = "show_radec" ->
            [kind |-> "angles", ra |-> hcg7_center.ra, dec |-> hcg7_center.dec]
      [] c = "show_center" -> hcg7_center
      [] c = "hour1" -> [kind |-> "number", value |-> AngleHour(hcg7_center.ra)]
      [] c = "hour2" -> [kind |-> "number", value |-> AngleHour(hcg7_center.ra)]

ReadCells ==
    {"type", "dir", "print", "type_radec", "show_radec", "show_center", "hour1", "hour2"}

\* type(hcg7_center), dir(hcg7_center), print(...), hcg7_center.ra.hour, ...:
\* NameError while hcg7_center is unassigned
ReadCell ==
    /\ pc \in ReadCells
    /\ IF Defined
       THEN out' = [out EXCEPT ![pc] = Shown(pc)] /\ Finish(pc, TRUE)
       ELSE out' = out /\ Finish(pc, FALSE)
    /\ UNCHANGED <<stopOnError, uncommented, hcg7_center, cutoutvars, sesame,
                   netlog, disk, calc>>

\* a faulty variant: the string-built Position bound to hcg7_center
FromStringAssigns ==
    /\ pc = "from_string"
    /\ out' = [out EXCEPT ![pc] = StringCoord]
    /\ hcg7_center' = StringCoord
    /\ Finish(pc, TRUE)
    /\ UNCHANGED <<stopOnError, uncommented, cutoutvars, sesame, netlog,
                   disk, calc>>

\* SkyCoord('0h39m15.9s', '0d53m17.016s', frame='icrs'): built and displayed,
\* bound to no name
FromStringCell ==
    /\ pc = "from_string"
    /\ out' = [out EXCEPT ![pc] = StringCoord]
    /\ Finish(pc, TRUE)
    /\ UNCHANGED <<stopOnError, uncommented, hcg7_center, cutoutvars, sesame,
                   netlog, disk, calc>>

\* the three assignments that need no Position
CutoutSettings ==
    [im_size |-> Quantity(Rat(IM_SIZE_ARCMIN, 1), "arcmin"),
     im_pixels |-> IM_PIXELS,
     cutoutbaseurl |-> cutoutbaseurl]

\* ... then query_string and url
CutoutAll ==
    LET q == QueryString(hcg7_center, CutoutSettings.im_size, CutoutSettings.im_pixels)
    IN  [im_size |-> CutoutSettings.im_size,
         im_pixels |-> CutoutSettings.im_pixels,
         cutoutbaseurl |-> CutoutSettings.cutoutbaseurl,
         query_string |-> q,
         url |-> Url(CutoutSettings.cutoutbaseurl, q)]

\* urlretrieve(url, filename): the files after k of the body's blocks arrived.
\* The target is opened for writing once the response has started, the blocks
\* are then written as they arrive.
Retrieved(url, filename, k) == Written(disk, filename, Prefix(Served(url), k))

\* the cutout cell
CutoutCell ==
    /\ pc = "cutout"
    /\ \/ \* NameError at hcg7_center.ra.deg
          /\ ~Defined
          /\ cutoutvars' = CutoutSettings
          /\ UNCHANGED <<netlog, disk>>
          /\ Finish(pc, FALSE)
       \/ \* urlopen raises: no connection, or an error response
          /\ Defined
          /\ cutoutvars' = CutoutAll
          /\ netlog' = Append(netlog, "cutout")
          /\ disk' = disk
          /\ Finish(pc, FALSE)
       \/ \* the transfer breaks after k blocks
          /\ Defined
          /\ cutoutvars' = CutoutAll
          /\ netlog' = Append(netlog, "cutout")
          /\ \E k \in 0..(NBlocks - 1) :
                disk' = Retrieved(CutoutAll.url, RetrieveTarget, k)
          /\ Finish(pc, FALSE)
       \/ \* the whole body arrives
          /\ Defined
          /\ cutoutvars' = CutoutAll
          /\ netlog' = Append(netlog, "cutout")
          /\ disk' = Retrieved(CutoutAll.url, RetrieveTarget, NBlocks)
          /\ Finish(pc, TRUE)
    /\ UNCHANGED <<stopOnError, uncommented, out, hcg7_center, sesame, calc>>

\* Image('HCG7_SDSS_cutout.jpg'): displays what the file holds now;
\* FileNotFoundError when there is no such file
ImageCell ==
    /\ pc = "image"
    /\ IF ImageSource \in DOMAIN disk
       THEN /\ out' = [out EXCEPT ![pc] = [kind |-> "image", data |-> disk[ImageSource]]]
            /\ Finish(pc, TRUE)
       ELSE out' = out /\ Finish(pc, FALSE)
    /\ UNCHANGED <<stopOnError, uncommented, hcg7_center, cutoutvars, sesame,
                   netlog, disk, calc>>

Next ==
    \/ PlainCell
    \/ FromNameCell
    \/ FallbackCell
    \/ ReadCell
    \/ FromStringCell
    \/ CutoutCell
    \/ ImageCell

Spec == Init /\ [][Next]_vars

----------------------------------------------------------------------------
(* The scale of the cutout request as a function of its two inputs. *)

ScaleInputs ==
    [fn : {"scale"}, fov : 1..MaxFov, pixels : 1..MaxPixels, done : {FALSE},
     scale : {Rat(0, 1)}]

InitScale == InitNotebook /\ calc \in ScaleInputs

\* scale = im_size.to(u.arcsec).value / im_pixels for im_size = fov*u.arcmin
ApplyScale ==
    /\ calc.fn = "scale"
    /\ ~calc.done
    /\ calc' = [calc EXCEPT
                  !.scale = ScaleOf(Quantity(Rat(calc.fov, 1), "arcmin"), calc.pixels),
                  !.done = TRUE]
    /\ UNCHANGED nbvars

NextScale == ApplyScale

SpecScale == InitScale /\ [][NextScale]_vars

----------------------------------------------------------------------------
(* Angles as binary floating-point numbers: m * 2^e with a significand of   *)
(* MantBits bits, every operation rounded to nearest, ties to even.         *)

RECURSIVE Pow2(_)
Pow2(k) == IF k = 0 THEN 1 ELSE 2 * Pow2(k - 1)

MantLo == Pow2(MantBits - 1)
MantHi == Pow2(MantBits)

FlZero == [m |-> 0, e |-> 0]

RoundHalfEven(N, D) ==
    LET q == N \div D
        r == N % D
    IN  IF 2 * r > D \/ (2 * r = D /\ q % 2 = 1) THEN q + 1 ELSE q

\* the floating-point number nearest to (N / D) * 2^e, for N >= 0 and D > 0
RECURSIVE Fl(_, _, _)
Fl(N, D, e) ==
    IF N = 0 THEN FlZero
    ELSE IF N < MantLo * D THEN Fl(2 * N, D, e - 1)
    ELSE IF N >= MantHi * D THEN Fl(N, 2 * D, e + 1)
    ELSE LET m == RoundHalfEven(N, D)
         IN  IF m = MantHi THEN [m |-> MantLo, e |-> e + 1] ELSE [m |-> m, e |-> e]

\* Angle.hour of an angle held in degrees: degrees / 15
FlHour(x) == Fl(x.m, 15, x.e)

\* a faulty variant: twelve hours taken for the full circle
FlDegHalfDay(h) == Fl(h.m * 30, 1, h.e)

\* Angle.deg of an angle held in hours: hours * 15
FlDeg(h) == Fl(h.m * 15, 1, h.e)

\* the floating-point right ascensions in [0, 360) with exponent >= -MaxNegExp
FlBelow360(x) ==
    IF x.e >= 0 THEN x.m * Pow2(x.e) < 360 ELSE x.m < 360 * Pow2(-x.e)

AngleInputs ==
    {FlZero} \cup
    {x \in [m : MantLo..(MantHi - 1), e : (-MaxNegExp)..(9 - MantBits)] : FlBelow360(x)}

InitAngle ==
    /\ InitNotebook
    /\ calc \in [fn : {"angle"}, x : AngleInputs, h : {FlZero}, y : {FlZero},
                  stage : {0}, numeric : {NoObject}, string : {NoObject}]

\* hcg7_center.ra.hour
ToHour ==
    /\ calc.fn = "angle"
    /\ calc.stage = 0
    /\ calc' = [calc EXCEPT !.h = FlHour(calc.x), !.stage = 1]
    /\ UNCHANGED nbvars

\* ... and the hours read back in degrees
ToDeg ==
    /\ calc.fn = "angle"
    /\ calc.stage = 1
    /\ calc' = [calc EXCEPT !.y = FlDeg(calc.h), !.stage = 2]
    /\ UNCHANGED nbvars

\* the Position written as numbers and written as sexagesimal strings
Construct ==
    /\ calc.fn = "angle"
    /\ calc.stage = 2
    /\ calc' = [calc EXCEPT !.numeric = FallbackCoord, !.string = StringCoord,
                            !.stage = 3]
    /\ UNCHANGED nbvars

NextAngle == ToHour \/ ToDeg \/ Construct

SpecAngle == InitAngle /\ [][NextAngle]_vars

----------------------------------------------------------------------------
(* Properties. *)

Assigned(name) == name \in DOMAIN cutoutvars

\* the value of parameter key in a query, as a set (empty when absent)
Param(query, key) == {query[i][2] : i \in {j \in 1..Len(query) : query[j][1] = key}}

Keys(query) == {query[i][1] : i \in 1..Len(query)}

AllOk == \A c \in Cells : status[c] = "ok"

\* C1: the scale of the cutout request is the field of view in arcseconds
\* divided by the pixel width, scale = (F * 60) / W for every field of view F
\* in arcmin and every pixel width W > 0; for F = 12 and W = 1024 it is
\* 720/1024 = 0.703125 arcsec per pixel exactly.
C1_Scale ==
    (calc.fn = "scale" /\ calc.done) =>
        /\ calc.scale.d > 0
        /\ calc.scale.n * calc.pixels = calc.fov * 60 * calc.scale.d
        /\ (calc.fov = 12 /\ calc.pixels = 1024) =>
               /\ calc.scale.n * 1024 = 720 * calc.scale.d
               /\ calc.scale.n * 1000000 = 703125 * calc.scale.d

C1_Witness ==
    /\ calc.fn = "scale"
    /\ calc.done
    /\ calc.fov = 12
    /\ calc.pixels = 1024
    /\ calc.scale = [n |-> 45, d |-> 64]

\* C2: whenever the cutout cell has built its URL, the URL is the fixed
\* endpoint plus exactly the five parameters ra, dec, width, height, scale;
\* ra and dec are the current Position's right ascension and declination in
\* degrees, width and height are both 1024.
C2_Query ==
    Assigned("url") =>
        LET u == cutoutvars.url
            q == u.query
        IN  /\ u.base = "http://skyservice.pha.jhu.edu/DR12/ImgCutout/getjpeg.aspx"
            /\ q = cutoutvars.query_string
            /\ Len(q) = 5
            /\ Keys(q) = {"ra", "dec", "width", "height", "scale"}
            /\ hcg7_center.kind = "SkyCoord"
            /\ {Quantity(v, "deg") : v \in Param(q, "ra")} = {hcg7_center.ra}
            /\ {Quantity(v, "deg") : v \in Param(q, "dec")} = {hcg7_center.dec}
            /\ Param(q, "width") = {[n |-> 1024, d |-> 1]}
            /\ Param(q, "height") = {[n |-> 1024, d |-> 1]}
            /\ Param(q, "scale") = {[n |-> 45, d |-> 64]}

C2_Witness ==
    /\ status["cutout"] = "ok"
    /\ Assigned("url")
    /\ Len(cutoutvars.url.query) = 5
    /\ Param(cutoutvars.url.query, "ra") = {[n |-> 9849, d |-> 1000]}

\* C3: when the image fetch fails, before the connection or part-way through
\* the transfer, the file keeps its previous complete content, and the display
\* step that follows shows that complete image.
C3_FileKeptOnFailure ==
    /\ status["cutout"] = "error" => disk["HCG7_SDSS_cutout.jpg"] = BundledImage
    /\ (status["cutout"] = "error" /\ status["image"] = "ok") =>
           out["image"].data = BundledImage

\* the literal fallback Position (9.81625 deg, 0.88806 deg, ICRS)
LiteralPosition ==
    [kind |-> "SkyCoord",
     ra |-> [value |-> [n |-> 7853, d |-> 800], unit |-> "deg"],
     dec |-> [value |-> [n |-> 44403, d |-> 50000], unit |-> "deg"],
     frame |-> "icrs"]

UsesPosition == ReadCells \cup {"cutout"}

\* C4: the name service is asked at most once per run; after a failed
\* resolution the Position is undefined until the fallback line is run, which
\* makes it the literal (9.81625 deg, 0.88806 deg, ICRS); no cell that uses
\* the Position ends normally while the Position is undefined.
C4_ResolveOnce ==
    /\ Cardinality({i \in 1..Len(netlog) : netlog[i] = "sesame"}) <= 1
    /\ \A c \in UsesPosition : status[c] = "ok" => Defined
    /\ (status["from_name"] = "error"
          /\ (status["fallback"] = "pending" \/ ~uncommented)) => ~Defined
    /\ (status["from_name"] = "error" /\ Defined) =>
          /\ status["fallback"] = "ok"
          /\ uncommented
          /\ hcg7_center = LiteralPosition

C4_Witness ==
    /\ status["from_name"] = "error"
    /\ netlog = <<"sesame">>
    /\ hcg7_center = LiteralPosition
    /\ status["print"] = "ok"

InRange(p) ==
    /\ RatLeq(Rat(0, 1), AngleDeg(p.ra))
    /\ RatLess(AngleDeg(p.ra), Rat(360, 1))
    /\ RatLeq(Rat(-90, 1), AngleDeg(p.dec))
    /\ RatLeq(AngleDeg(p.dec), Rat(90, 1))

Positions == {hcg7_center, out["show_center"], out["from_string"]} \ {NoObject}

DecOutside(answer) ==
    RatLess(answer.dec, Rat(-90, 1)) \/ RatLess(Rat(90, 1), answer.dec)

\* C5: every Position in a reachable state, from the name service, from the
\* numeric literal or from the sexagesimal strings, has right ascension in
\* [0, 360) deg and declination in [-90, 90] deg; an answer of the name
\* service with a declination outside [-90, 90] is rejected: the cell fails
\* and no Position is made of it.
C5_Range ==
    /\ \A p \in Positions : InRange(p)
    /\ (sesame # NoObject /\ DecOutside(sesame)) =>
          /\ status["from_name"] = "error"
          /\ \A p \in Positions : p.dec.value # sesame.dec

C5_Witness ==
    /\ sesame # NoObject
    /\ DecOutside(sesame)
    /\ status["from_name"] = "error"
    /\ hcg7_center = LiteralPosition
    /\ out["from_string"] # NoObject

\* the distance of two floating-point numbers is at most k units in the last
\* place of x
WithinUlps(x, y, k) ==
    LET emin == IF x.e < y.e THEN x.e ELSE y.e
        xs == x.m * Pow2(x.e - emin)
        ys == y.m * Pow2(y.e - emin)
    IN  Abs(xs - ys) <= k * Pow2(x.e - emin)

SamePosition(p, q) ==
    /\ p.kind = "SkyCoord"
    /\ q.kind = "SkyCoord"
    /\ ToValue(p.ra, "arcsec") = ToValue(q.ra, "arcsec")
    /\ ToValue(p.dec, "arcsec") = ToValue(q.dec, "arcsec")
    /\ p.frame = q.frame

ReadOnlySteps == ReadCells \cup {"from_string", "cutout", "image"}

\* C8: no step that reads or formats the Position (printing, .hour, .deg,
\* building a second Position from strings, building the cutout query,
\* showing the image) changes hcg7_center, and ra.hour read after the
\* string-built Position equals ra.hour read before it.
C8_Immutable ==
    [][ /\ pc \in ReadOnlySteps => hcg7_center' = hcg7_center
        /\ (status'["hour1"] = "ok" /\ status'["hour2"] = "ok") =>
              out'["hour1"] = out'["hour2"] ]_vars

C8_Witness ==
    /\ status["hour1"] = "ok"
    /\ out["from_string"] # NoObject
    /\ status["hour2"] = "ok"
    /\ status["cutout"] = "ok"

\* C9: the network calls of a run are issued in one fixed order, the name
\* resolution before the cutout GET, each at most once, and a run in which
\* every cell ends normally issues exactly these two; a completed GET leaves
\* in the file the served bytes, unmodified; the display step runs only after
\* the cutout cell has ended and shows what the file then holds.
C9_Sequential ==
    /\ netlog \in {<<>>, <<"sesame">>, <<"sesame", "cutout">>}
    /\ (pc = "done" /\ AllOk) => netlog = <<"sesame", "cutout">>
    /\ DOMAIN disk = {"HCG7_SDSS_cutout.jpg"}
    /\ status["cutout"] = "ok" =>
          /\ Len(disk["HCG7_SDSS_cutout.jpg"]) = NBlocks
          /\ \A i \in 1..NBlocks :
                disk["HCG7_SDSS_cutout.jpg"][i] = [of |-> cutoutvars.url, block |-> i]
    /\ status["image"] # "pending" =>
          /\ status["cutout"] # "pending"
          /\ status["image"] = "ok"
          /\ out["image"].data = disk["HCG7_SDSS_cutout.jpg"]

C9_Witness ==
    /\ pc = "done"
    /\ AllOk
    /\ netlog = <<"sesame", "cutout">>
    /\ out["image"].data = Served(cutoutvars.url)

\* C10: the Position the fallback line defines is the Position the notebook
\* reports for the online resolution (ra = 9.849 deg, dec = 0.878 deg), so
\* the printed RA/Dec and the ra and dec of the cutout query are the same
\* whichever step defined the Position.
C10_OfflineEqualsOnline ==
    (status["from_name"] = "error" /\ Defined) =>
        /\ AngleDeg(hcg7_center.ra) = [n |-> 9849, d |-> 1000]
        /\ AngleDeg(hcg7_center.dec) = [n |-> 878, d |-> 1000]
        /\ status["print"] = "ok" =>
               out["print"].line1 = <<[n |-> 9849, d |-> 1000], [n |-> 878, d |-> 1000]>>
        /\ Assigned("url") =>
               /\ Param(cutoutvars.url.query, "ra") = {[n |-> 9849, d |-> 1000]}
               /\ Param(cutoutvars.url.query, "dec") = {[n |-> 878, d |-> 1000]}

====
